---- MODULE Spec2Model ----
(***************************************************************************)
(* Frequency-response measurement (frequency-response/measure.cc).         *)
(*                                                                         *)
(* The audio callback process() and the control thread main() are          *)
(* modelled as a state machine.  process() is one atomic action: the only  *)
(* shared locations the control thread touches while the sweep runs are    *)
(* the two atomics and current_bin, and process() writes current_bin at    *)
(* most once per callback, so every value the control thread can observe   *)
(* in the middle of a callback is a value at a callback boundary.          *)
(*                                                                         *)
(* Numbers.  Samples are fixed-point numbers in hundredths (1 = 0.01), and *)
(* a product with a window coefficient is rounded toward zero.  The        *)
(* oscillator phase is kept as its numerator over fft_size: bin/fft_size   *)
(* and its partial sums below 2 are exact in binary floating point when    *)
(* fft_size is a power of two.  The transform length is scaled from 2048   *)
(* down to 4, the smallest length whose window is not identically zero;    *)
(* the 4-point transform has the twiddle factors 1, -i, -1, i and is exact *)
(* over the integers.                                                      *)
(***************************************************************************)
EXTENDS Integers, Sequences, FiniteSets, TLC

\* ---- bounds of the model ------------------------------------------------
\* longest buffer the audio engine hands to one callback
MaxFrames == 2
\* cap of the silence run counter (the callback is not taken beyond it)
MaxSilence == 3
\* length of the replayed stream in the two-run specification
MaxStream == 11
\* longest buffer of a callback in the fair specification SpecLive
LiveFrames == 1

\* ---- program constants --------------------------------------------------
fft_size == 4
fft_nbins == fft_size \div 2 + 1
silence_threshold == 1
\* ~0u, the "no bin selected yet" value of the unsigned current_bin.  The
\* 32-bit value 2^32 - 1 is written as its residue -1 modulo 2^32, and
\* UIntInc is the unsigned increment on these residues: ~0u + 1 wraps to 0.
NoBin == -1
UIntInc(x) == IF x = NoBin THEN 0 ELSE x + 1

\* input sample values: quiet (0.0) and loud (0.02)
Samples == {0, 2}

\* sample rates jack_get_sample_rate may report, in Hz (scaled with fft_size)
SampleRates == {100, 150}

Bins == 0..(fft_nbins - 1)

VARIABLES
    measure_started,   \* std::atomic<int>
    measure_finished,  \* std::atomic<int>
    ctx,               \* Measure_Context
    output,            \* the output port buffer of the latest callback
    pc,                \* position of main(): "prompt", "poll", "save", "done"
    save_i,            \* loop index of main()'s result loop
    file,              \* rows main() has written to response.dat
    progress,          \* number on the console's "Progress" line, 0 if none
    \* history variables (not program state)
    transforms,        \* per bin: window+transform runs, saturating at 2
    writes,            \* per bin: writes of response[bin], saturating at 2
    tail,              \* the latest silence_frames_needed input samples since start
    heard_quiet,       \* some input sample since start was below the threshold
    owners,            \* bins that were current while fft_in[0..fill-1] was stored
    written_from,      \* per bin: fill and owners at the latest write of its slot
    tone_count,        \* tone samples synthesized by the latest callback
    did,               \* the writes of the latest callback: whether it wrote
                       \* response[slot], and the stored input samples
                       \* fft_in[first .. first + stored - 1]
    osc_samples,       \* tone samples synthesized since the latest change of
                       \* current_bin, counted modulo the period of its tone
    \* two-run replay (specification SpecPair)
    ctxB,              \* Measure_Context of the second run
    stream,            \* the input stream replayed so far
    capA, capB,        \* per bin: the input samples each run captured for it
    startB,            \* samples of the stream that preceded the first sample
                       \* of the second run's capture buffer
    rawB               \* the second run's latest callback stored input samples
                       \* (its capture buffer has not been windowed since)

vars == <<measure_started, measure_finished, ctx, output, pc, save_i, file,
          progress, transforms, writes, tail, heard_quiet, owners,
          written_from, tone_count, did, osc_samples, ctxB, stream, capA, capB,
          startB, rawB>>

progVars == <<measure_started, measure_finished, ctx, output, pc, save_i, file,
              progress, transforms, writes, tail, heard_quiet, owners,
              written_from, tone_count, did, osc_samples>>
pairVars == <<ctxB, stream, capA, capB, startB, rawB>>

\* ---- arithmetic helpers ---------------------------------------------------
Abs(x) == IF x < 0 THEN -x ELSE x

\* product of a sample and a coefficient in hundredths, rounded toward zero
MulFix(x, w) == IF x * w >= 0 THEN (x * w) \div 100 ELSE -((-(x * w)) \div 100)

\* cos(2*pi*m/(fft_size-1)) in hundredths, fft_size - 1 = 3
CosThirds(m) == IF m % 3 = 0 THEN 100 ELSE -50

\* 0.42 - 0.5*cos(2*pi*k) + 0.08*cos(4*pi*k), k = i/(fft_size-1), in hundredths
Window(i) == 42 - MulFix(50, CosThirds(i)) + MulFix(8, CosThirds(2 * i))

\* e^(-2*pi*i*m/4) = (-i)^m as <<re, im>>
Twiddle(m) == CASE m % 4 = 0 -> <<1, 0>>
                [] m % 4 = 1 -> <<0, -1>>
                [] m % 4 = 2 -> <<-1, 0>>
                [] m % 4 = 3 -> <<0, 1>>

RECURSIVE SumTo(_, _, _, _)
SumTo(buf, k, part, n) ==
    IF n = 0 THEN 0
    ELSE SumTo(buf, k, part, n - 1) + buf[n] * Twiddle(k * (n - 1))[part]

\* fftwf_execute of the r2c plan: coefficient k of the real buffer buf
FFT(buf, k) == <<SumTo(buf, k, 1, fft_size), SumTo(buf, k, 2, fft_size)>>

\* sin(p/fft_size) in hundredths for the phase numerators 0..3
Sin(p) == CASE p = 0 -> 0 [] p = 1 -> 24 [] p = 2 -> 47 [] p = 3 -> 68

\* (mutant) the output buffer is not cleared
Hum(n) == [i \in 1..n |-> 2]

Zeros(n) == [i \in 1..n |-> 0]

Min(a, b) == IF a < b THEN a ELSE b

\* ---- process(), measure.cc:40-94 ------------------------------------------
\* (mutant) the run counter is not reset by a loud sample
RECURSIVE CountSilenceNoReset(_, _)
CountSilenceNoReset(count, input) ==
    IF input = <<>> THEN count
    ELSE CountSilenceNoReset(IF Abs(Head(input)) < silence_threshold
                             THEN UIntInc(count) ELSE count,
                             Tail(input))

\* the silence run counter after the samples of one buffer
RECURSIVE CountSilence(_, _)
CountSilence(count, input) ==
    IF input = <<>> THEN count
    ELSE CountSilence(IF Abs(Head(input)) < silence_threshold
                      THEN UIntInc(count) ELSE 0,
                      Tail(input))

\* (mutant) the start signal is not consulted
NotStartedIgnored(started) == FALSE

\* if (!measure_started.load()) return 0
NotStarted(started) == started = 0

\* (mutant) the completion test is off by one
AllDoneLate(c) == c.current_bin = fft_nbins + 1

\* (mutant) the sweep is taken to be over one bin early
AllDoneEarly(c) == c.current_bin = fft_nbins - 1

\* if (ctx.current_bin == fft_nbins)
AllDone(c) == c.current_bin = fft_nbins

\* if (ctx.current_bin != ~0u && ctx.fft_in_fill == fft_size)
CaptureComplete(c) == c.current_bin # NoBin /\ c.fft_in_fill = fft_size

\* the in-place window loop over fft_in
ApplyWindow(buf) == [i \in 1..fft_size |-> MulFix(buf[i], Window(i - 1))]

\* window, transform, response[current_bin] = fft_out[current_bin]
Measure(c) ==
    LET w == ApplyWindow(c.fft_in) IN
    [c EXCEPT !.fft_in = w,
              !.response = [@ EXCEPT ![c.current_bin] = FFT(w, c.current_bin)]]

\* bool change_bin = ctx.current_bin == ~0u || ctx.fft_in_fill == fft_size
change_bin(c) == c.current_bin = NoBin \/ c.fft_in_fill = fft_size

\* (mutant) the gate asks for one quiet sample more than the debounce length
GateClosedStrict(c) == c.silence_frames_count <= c.silence_frames_needed

\* (mutant) the gate only asks for one quiet sample
GateClosedLax(c) == c.silence_frames_count < 1

\* if (ctx.silence_frames_count < ctx.silence_frames_needed) return 0
GateClosed(c) == c.silence_frames_count < c.silence_frames_needed

\* (mutant) the sweep skips every other bin
NextBinSkip(c) == [c EXCEPT !.current_bin = UIntInc(UIntInc(@)),
                            !.fft_in_fill = 0,
                            !.oscillator_phase = 0]

\* (mutant) the bin change keeps the oscillator phase
NextBinKeepPhase(c) == [c EXCEPT !.current_bin = UIntInc(@),
                                 !.fft_in_fill = 0]

\* ++ctx.current_bin; ctx.fft_in_fill = 0; ctx.oscillator_phase = 0
NextBin(c) == [c EXCEPT !.current_bin = UIntInc(@),
                        !.fft_in_fill = 0,
                        !.oscillator_phase = 0]

\* phase += bin/fft_size; phase -= (int)phase, on numerators over fft_size
StepPhase(p, bin) == LET q == p + bin IN q - fft_size * (q \div fft_size)

\* the tone loop: for (i = 0; i < nframes && fft_in_fill < fft_size; ++i)
RECURSIVE ToneLoop(_, _, _, _)
ToneLoop(c, i, nframes, out) ==
    IF i < nframes /\ c.fft_in_fill < fft_size
    THEN ToneLoop([c EXCEPT !.oscillator_phase = StepPhase(@, c.current_bin)],
                  i + 1, nframes,
                  [out EXCEPT ![i + 1] = Sin(c.oscillator_phase)])
    ELSE [ctx |-> c, output |-> out, tone |-> i]

\* (mutant) the input is recorded in the callback of a bin change too
record_input_always(chg) == TRUE

\* bool record_input = !change_bin
record_input(chg) == ~chg

\* (mutant) the capture loop stores the first sample of the buffer each time
RECURSIVE RecordLoopStale(_, _, _, _)
RecordLoopStale(c, i, nframes, input) ==
    IF i < nframes /\ c.fft_in_fill < fft_size
    THEN RecordLoopStale([c EXCEPT !.fft_in[c.fft_in_fill + 1] = input[1],
                                   !.fft_in_fill = @ + 1],
                         i + 1, nframes, input)
    ELSE c

\* the capture loop: fft_in[fft_in_fill++] = input[i]
RECURSIVE RecordLoop(_, _, _, _)
RecordLoop(c, i, nframes, input) ==
    IF i < nframes /\ c.fft_in_fill < fft_size
    THEN RecordLoop([c EXCEPT !.fft_in[c.fft_in_fill + 1] = input[i + 1],
                              !.fft_in_fill = @ + 1],
                    i + 1, nframes, input)
    ELSE c

\* Bind(v, F) is F(v) with v evaluated once.
Bind(v, F(_)) == CHOOSE y \in {F(x) : x \in {v}} : TRUE

\* what a callback that returns early reports: silence on the output
Idle(c, nframes) ==
    [ctx |-> c, output |-> Zeros(nframes), finish |-> FALSE,
     measured |-> FALSE, slot |-> c.current_bin,
     fill |-> c.fft_in_fill, tone |-> 0, stored |-> 0]

\* lines 71-91: bin change behind the gate, tone loop, capture loop; c1 is
\* the context before the measure block and c2 the context after it
Sweep(c1, c2, nframes, input) ==
    IF change_bin(c2) /\ GateClosed(c2)
    THEN [Idle(c1, nframes) EXCEPT !.ctx = c2, !.measured = CaptureComplete(c1)]
    ELSE
    Bind(IF change_bin(c2) THEN NextBin(c2) ELSE c2, LAMBDA c3 :
    Bind(ToneLoop(c3, 0, nframes, Zeros(nframes)), LAMBDA t :
    Bind(IF record_input(change_bin(c2))
         THEN RecordLoop(t.ctx, 0, nframes, input) ELSE t.ctx, LAMBDA c4 :
        [ctx |-> c4, output |-> t.output, finish |-> FALSE,
         measured |-> CaptureComplete(c1), slot |-> c1.current_bin,
         fill |-> c1.fft_in_fill,
         tone |-> t.tone, stored |-> c4.fft_in_fill - t.ctx.fft_in_fill])))

\* lines 55-69: the early return of a finished sweep, the measure block
Started(c1, nframes, input) ==
    IF AllDone(c1) THEN [Idle(c1, nframes) EXCEPT !.finish = TRUE]
    ELSE Bind(IF CaptureComplete(c1) THEN Measure(c1) ELSE c1, LAMBDA c2 :
              Sweep(c1, c2, nframes, input))

\* One callback on context c.  The result carries the new context, the
\* output buffer, whether measure_finished is stored, and what the callback
\* did: measured (the window/transform/write block ran, on slot `slot` with
\* `fill` samples in the buffer), tone (tone samples synthesized), stored
\* (input samples appended to the capture buffer).
process(c, started, nframes, input) ==
    IF NotStarted(started) THEN Idle(c, nframes)
    ELSE Bind([c EXCEPT !.silence_frames_count = CountSilence(@, input)],
              LAMBDA c1 : Started(c1, nframes, input))

\* ---- construction: Measure_Context defaults, setup_fft, main():126-138 -----
\* fftwf_alloc_real leaves fft_in indeterminate; new cfloat[] zero-fills
InitCtx(buf, needed) ==
    [fft_in |-> buf,
     current_bin |-> NoBin,
     fft_in_fill |-> 0,
     oscillator_phase |-> 0,
     response |-> [k \in Bins |-> <<0, 0>>],
     silence_frames_count |-> 0,
     silence_frames_needed |-> needed]

\* ctx.silence_frames_needed = std::ceil(10e-3 * sample_rate)
FramesNeeded(sample_rate) == (10 * sample_rate + 999) \div 1000

NoHistory ==
    /\ transforms = [k \in Bins |-> 0]
    /\ writes = [k \in Bins |-> 0]
    /\ tail = <<>>
    /\ heard_quiet = FALSE
    /\ owners = {}
    /\ written_from = [k \in Bins |-> [fill |-> -1, owners |-> {}]]
    /\ tone_count = 0
    /\ did = [measured |-> FALSE, slot |-> NoBin, first |-> 0, stored |-> 0]
    /\ osc_samples = 0

PairIdle ==
    /\ ctxB = InitCtx(Zeros(fft_size), 1)
    /\ stream = <<>>
    /\ capA = [k \in Bins |-> <<>>]
    /\ capB = [k \in Bins |-> <<>>]
    /\ startB = 0
    /\ rawB = FALSE

Init ==
    /\ measure_started = 0
    /\ measure_finished = 0
    /\ \E buf \in {[i \in 1..fft_size |-> v] : v \in Samples},
          sample_rate \in SampleRates :
          ctx = InitCtx(buf, FramesNeeded(sample_rate))
    /\ output = <<>>
    /\ pc = "prompt"
    /\ save_i = 0
    /\ file = <<>>
    /\ progress = 0
    /\ NoHistory
    /\ PairIdle

\* the number of samples after which the tone of a bin repeats:
\* fft_size / gcd(bin, fft_size), and 1 for the constant tone of bin 0
RECURSIVE GCD(_, _)
GCD(a, b) == IF b = 0 THEN a ELSE GCD(b, a % b)
Period(bin) == IF bin <= 0 THEN 1 ELSE fft_size \div GCD(bin, fft_size)

\* the last n elements of s (all of s when it is shorter)
LastN(s, n) == IF Len(s) <= n THEN s ELSE SubSeq(s, Len(s) - n + 1, Len(s))

\* ---- the audio thread -------------------------------------------------------
\* One invocation of process() by the audio engine, with a buffer of nframes
\* samples.  The engine calls it until main() returns (pc = "done" ends the
\* process).  Callbacks that would take the silence run counter beyond
\* MaxSilence are left out to keep the counter bounded.  The history
\* variables are advanced from what the callback reports having done.
AudioCallback ==
    \E nframes \in 1..MaxFrames : \E input \in [1..nframes -> Samples] :
        \E r \in {process(ctx, measure_started, nframes, input)} :
        LET on == measure_started # 0
        IN
        /\ pc # "done"
        /\ r.ctx.silence_frames_count <= MaxSilence
        /\ ctx' = r.ctx
        /\ output' = r.output
        /\ measure_finished' = IF r.finish THEN 1 ELSE measure_finished
        /\ transforms' = IF r.measured
                         THEN [transforms EXCEPT ![r.slot] = Min(@ + 1, 2)]
                         ELSE transforms
        /\ writes' = IF r.measured
                     THEN [writes EXCEPT ![r.slot] = Min(@ + 1, 2)]
                     ELSE writes
        /\ tail' = IF on
                   THEN LastN(tail \o input, ctx.silence_frames_needed)
                   ELSE tail
        /\ heard_quiet' = (heard_quiet \/
                           (on /\ \E i \in 1..nframes :
                                     Abs(input[i]) < silence_threshold))
        /\ written_from' = IF r.measured
                           THEN [written_from EXCEPT ![r.slot] =
                                    [fill |-> r.fill, owners |-> owners]]
                           ELSE written_from
        /\ owners' = IF r.ctx.fft_in_fill = 0 THEN {}
                     ELSE IF r.stored > 0 THEN owners \cup {r.ctx.current_bin}
                     ELSE owners
        /\ tone_count' = r.tone
        /\ did' = [measured |-> r.measured,
                   slot |-> IF r.measured THEN r.slot ELSE NoBin,
                   first |-> r.ctx.fft_in_fill - r.stored,
                   stored |-> r.stored]
        /\ osc_samples' = IF r.ctx.current_bin # ctx.current_bin
                           THEN r.tone % Period(r.ctx.current_bin)
                           ELSE (osc_samples + r.tone) % Period(ctx.current_bin)
        /\ UNCHANGED <<measure_started, pc, save_i, file, progress>>
        /\ UNCHANGED pairVars

\* ---- the control thread, main():148-180 -------------------------------------
\* getchar() returns; measure_started.store(1)
MainStart ==
    /\ pc = "prompt"
    /\ measure_started' = 1
    /\ pc' = "poll"
    /\ UNCHANGED <<measure_finished, ctx, output, save_i, file, progress,
                   transforms, writes, tail, heard_quiet, owners,
                   written_from, tone_count, did,
                   osc_samples>>
    /\ UNCHANGED pairVars

\* one round of while (measure_finished.load() == 0) { ... nanosleep }
MainPoll ==
    /\ pc = "poll"
    /\ measure_finished = 0
    /\ progress' = IF ctx.current_bin # NoBin
                   THEN UIntInc(ctx.current_bin)
                   ELSE progress
    /\ UNCHANGED <<measure_started, measure_finished, ctx, output, pc, save_i,
                   file, transforms, writes, tail, heard_quiet, owners,
                   written_from, tone_count, did,
                   osc_samples>>
    /\ UNCHANGED pairVars

\* (mutant) the polling loop exits without having seen measure_finished
MainExitPollBlind ==
    /\ pc = "poll"
    /\ pc' = "save"
    /\ save_i' = 0
    /\ progress' = 0
    /\ UNCHANGED <<measure_started, measure_finished, ctx, output, file,
                   transforms, writes, tail, heard_quiet, owners,
                   written_from, tone_count, did,
                   osc_samples>>
    /\ UNCHANGED pairVars

\* the loop exits on measure_finished != 0; printf("\n") ends the progress
\* line; acquire fence; fopen
MainExitPoll ==
    /\ pc = "poll"
    /\ measure_finished # 0
    /\ pc' = "save"
    /\ save_i' = 0
    /\ progress' = 0
    /\ UNCHANGED <<measure_started, measure_finished, ctx, output, file,
                   transforms, writes, tail, heard_quiet, owners,
                   written_from, tone_count, did,
                   osc_samples>>
    /\ UNCHANGED pairVars

\* one round of for (i = 0; i < fft_nbins; ++i): a row from response[i]
MainSaveRow ==
    /\ pc = "save"
    /\ save_i < fft_nbins
    /\ file' = Append(file, [bin |-> save_i, value |-> ctx.response[save_i]])
    /\ save_i' = save_i + 1
    /\ UNCHANGED <<measure_started, measure_finished, ctx, output, pc,
                   progress, transforms, writes, tail, heard_quiet, owners,
                   written_from, tone_count, did,
                   osc_samples>>
    /\ UNCHANGED pairVars

\* the loop ends; fflush, fclose, return 0
MainFinish ==
    /\ pc = "save"
    /\ save_i >= fft_nbins
    /\ pc' = "done"
    /\ UNCHANGED <<measure_started, measure_finished, ctx, output, save_i,
                   file, progress, transforms, writes, tail, heard_quiet,
                   owners, written_from, tone_count, did,
                   osc_samples>>
    /\ UNCHANGED pairVars

Next ==
    \/ AudioCallback
    \/ MainStart
    \/ MainPoll
    \/ MainExitPoll
    \/ MainSaveRow
    \/ MainFinish

Spec == Init /\ [][Next]_vars

\* ---- two runs of process() over one input stream ---------------------------
\* Both runs start from the same context at the moment the start signal is
\* set.  Run A (ctx) receives the stream in buffers of length 1, run B (ctxB)
\* receives the same samples in buffers of any length up to fft_size.

\* the samples a callback captured, appended to the record of its bin
Captured(cap, r, input) ==
    IF r.stored > 0
    THEN [cap EXCEPT ![r.ctx.current_bin] = @ \o SubSeq(input, 1, r.stored)]
    ELSE cap

\* run A over the samples of input, one callback per sample
RECURSIVE OneByOne(_, _, _)
OneByOne(c, cap, input) ==
    IF input = <<>> THEN [ctx |-> c, cap |-> cap]
    ELSE LET r == process(c, 1, 1, <<Head(input)>>) IN
         OneByOne(r.ctx, Captured(cap, r, <<Head(input)>>), Tail(input))

PairInit ==
    /\ measure_started = 1
    /\ measure_finished = 0
    /\ \E sample_rate \in SampleRates :
          /\ ctx = InitCtx(Zeros(fft_size), FramesNeeded(sample_rate))
          /\ ctxB = InitCtx(Zeros(fft_size), FramesNeeded(sample_rate))
    /\ output = <<>>
    /\ pc = "poll"
    /\ save_i = 0
    /\ file = <<>>
    /\ progress = 0
    /\ NoHistory
    /\ stream = <<>>
    /\ capA = [k \in Bins |-> <<>>]
    /\ capB = [k \in Bins |-> <<>>]
    /\ startB = 0
    /\ rawB = FALSE

Replay ==
    \E nframes \in 1..fft_size : \E input \in [1..nframes -> Samples] :
    Len(stream) + nframes <= MaxStream /\
    \E a \in {OneByOne(ctx, capA, input)} :
    \E b \in {process(ctxB, 1, nframes, input)} :
        /\ stream' = stream \o input
        /\ ctx' = a.ctx
        /\ capA' = a.cap
        /\ ctxB' = b.ctx
        /\ capB' = Captured(capB, b, input)
        /\ startB' = IF b.stored > 0 /\ b.ctx.fft_in_fill = b.stored
                      THEN Len(stream) ELSE startB
        /\ rawB' = (b.stored > 0)
        /\ UNCHANGED <<measure_started, measure_finished, output, pc, save_i,
                       file, progress, transforms, writes, tail, heard_quiet,
                       owners, written_from, tone_count, did,
                       osc_samples>>

PairNext == Replay

SpecPair == PairInit /\ [][PairNext]_vars

\* ---- the sweep under a calling engine and an input that falls quiet ---------
\* The silence run counter is kept as min(counter, MaxSilence): process()
\* only compares it with silence_frames_needed, which is at most MaxSilence,
\* so the gate decides alike on both.
Saturate(c) == [c EXCEPT !.silence_frames_count = Min(@, MaxSilence)]

\* one invocation of process(), any buffer length from 1 up, any input
LiveCallback ==
    \E nframes \in 1..LiveFrames : \E input \in [1..nframes -> Samples] :
    \E r \in {process(ctx, measure_started, nframes, input)} :
        /\ pc # "done"
        /\ ctx' = Saturate(r.ctx)
        /\ output' = r.output
        /\ measure_finished' = IF r.finish THEN 1 ELSE measure_finished
        /\ UNCHANGED <<measure_started, pc, save_i, file, progress,
                       transforms, writes, tail, heard_quiet, owners,
                       written_from, tone_count, did,
                       osc_samples>>
        /\ UNCHANGED pairVars

\* the input seen so far ends in silence_frames_needed quiet samples
QuietEnough == ctx.silence_frames_count >= ctx.silence_frames_needed

LiveNext ==
    \/ LiveCallback
    \/ MainStart
    \/ MainPoll
    \/ MainExitPoll
    \/ MainSaveRow
    \/ MainFinish

\* The audio engine keeps invoking the callback and main() keeps being
\* scheduled.  Nothing makes the operator press ENTER: MainStart is not fair.
SpecLive ==
    /\ Init
    /\ [][LiveNext]_vars
    /\ WF_vars(LiveCallback)
    /\ WF_vars(MainExitPoll)

\* ---- properties --------------------------------------------------------------
Quiet(x) == Abs(x) < silence_threshold
AllZero(buf) == \A i \in DOMAIN buf : buf[i] = 0
Needed == ctx.silence_frames_needed

\* C1: every bin's capture buffer is windowed and transformed at most once
\* and response[k] is written at most once, also while callbacks keep
\* arriving with the buffer full and the silence gate closed.
C1_OncePerWindow ==
    \A k \in Bins : transforms[k] <= 1 /\ writes[k] <= 1

\* C2: the run fed in buffers of length 1 and the run fed the same stream in
\* other buffer lengths capture the same samples for every bin they have
\* both measured, and store the same response for it.
C2_ChunkIndependent ==
    \A k \in Bins :
        (ctx.current_bin > k /\ ctxB.current_bin > k)
            => (capA[k] = capB[k] /\ ctx.response[k] = ctxB.response[k])

\* C3: the control thread has read a response slot only if measure_finished
\* is set, and a step that changes the response table is never a step of the
\* control thread.
C3_ReadAfterFinished ==
    /\ [](file # <<>> => measure_finished = 1)
    /\ [][ctx'.response # ctx.response
            => UNCHANGED <<measure_started, pc, save_i, file, progress>>]_vars

C3_Witness == pc = "done" /\ Len(file) = fft_nbins

\* C4: once bin 0 is selected, current_bin changes only by +1, only from a
\* full capture buffer that has been transformed and with the silence gate
\* passed; it stays within 0..fft_nbins and rests at fft_nbins.
C4_BinSteps ==
    /\ [](ctx.current_bin \in {NoBin} \cup (0..fft_nbins))
    /\ [][(ctx.current_bin # NoBin /\ ctx'.current_bin # ctx.current_bin)
            => /\ ctx'.current_bin = ctx.current_bin + 1
               /\ ctx.fft_in_fill = fft_size
               /\ transforms'[ctx.current_bin] >= 1
               /\ ctx'.silence_frames_count >= Needed]_vars
    /\ [][ctx.current_bin = fft_nbins => ctx'.current_bin = fft_nbins]_vars

C4_Witness == ctx.current_bin = fft_nbins /\ measure_finished = 0

\* C5: a callback that ends with the silence run counter below
\* silence_frames_needed leaves current_bin unchanged, and as long as no
\* input sample since the start was below the threshold no bin is selected.
C5_NoAdvanceWhileLoud ==
    /\ [][ctx'.silence_frames_count < Needed
            => ctx'.current_bin = ctx.current_bin]_vars
    /\ [](~heard_quiet => ctx.current_bin = NoBin)

C5_Witness ==
    /\ ctx.current_bin \in Bins
    /\ ctx.fft_in_fill = fft_size
    /\ ctx.silence_frames_count < Needed
    /\ transforms[ctx.current_bin] = 2

\* C6: whenever current_bin changes (none to 0, k to k+1, the last bin to
\* fft_nbins), the latest silence_frames_needed input samples processed
\* since the start were all below the silence threshold.
C6_GateBeforeEveryBin ==
    [][ctx'.current_bin # ctx.current_bin
        => /\ Len(tail') = Needed
           /\ \A i \in 1..Len(tail') : Quiet(tail'[i])]_vars

C6_Witness ==
    /\ ctx.current_bin = 1
    /\ ctx.fft_in_fill = 0
    /\ Needed = 2
    /\ heard_quiet
    /\ \E k \in Bins : written_from[k].fill = fft_size

\* C7: fft_in_fill stays within 0..fft_size, it is 0 after every callback
\* that changes current_bin, and it decreases in no other callback.
C7_FillReset ==
    /\ [](ctx.fft_in_fill \in 0..fft_size)
    /\ [][/\ (ctx'.current_bin # ctx.current_bin => ctx'.fft_in_fill = 0)
          /\ (ctx'.fft_in_fill < ctx.fft_in_fill
                => ctx'.current_bin # ctx.current_bin)]_vars

C7_Witness == ctx.current_bin = 2 /\ ctx.fft_in_fill = 0 /\ tone_count > 0

\* C8: while measure_started is 0 a callback leaves the whole context
\* unchanged, writes only zeros to the output and leaves measure_finished 0.
C8_IdleBeforeStart ==
    [][measure_started = 0
        => /\ ctx' = ctx
           /\ AllZero(output')
           /\ tone_count' = 0
           /\ measure_finished' = 0]_vars

C8_Witness == measure_started = 0 /\ Len(output) = MaxFrames

\* C9: once current_bin is fft_nbins no tone sample is synthesized and the
\* output is all zeros, in the callback that reaches fft_nbins included.
C9_SilentWhenDone ==
    ctx.current_bin = fft_nbins => (tone_count = 0 /\ AllZero(output))

\* C10: when measure_finished is set, current_bin is fft_nbins and every
\* response slot was written from a full buffer captured during its own bin;
\* from then on measure_finished stays set and the response table,
\* current_bin and fft_in_fill do not change.
C10_FinishedIsFinal ==
    /\ [](measure_finished = 1
            => /\ ctx.current_bin = fft_nbins
               /\ \A k \in Bins :
                     written_from[k] = [fill |-> fft_size, owners |-> {k}])
    /\ [][measure_finished = 1
            => /\ measure_finished' = 1
               /\ ctx'.response = ctx.response
               /\ ctx'.current_bin = ctx.current_bin
               /\ ctx'.fft_in_fill = ctx.fft_in_fill]_vars

C10_Witness ==
    /\ measure_finished = 1
    /\ pc = "poll"
    /\ \E k \in Bins : ctx.response[k] # <<0, 0>>

C12_ToneWithCapture == tone_count > 0 => did.stored > 0

\* C13: whatever the lengths of the callback buffers, the capture buffer
\* holds consecutive samples of the input stream in stream order, never more
\* than fft_size of them, and what arrives once it is full is not stored.
C13_ConsecutiveCapture ==
    rawB => /\ ctxB.fft_in_fill \in 1..fft_size
            /\ startB + ctxB.fft_in_fill <= Len(stream)
            /\ \A i \in 1..ctxB.fft_in_fill :
                   ctxB.fft_in[i] = stream[startB + i]

\* the full buffer of the second bin, holding both sample values, whose
\* last callback brought more samples than fitted
C13_Witness ==
    /\ rawB
    /\ ctxB.current_bin = 1
    /\ ctxB.fft_in_fill = fft_size
    /\ startB > 0
    /\ Len(stream) > startB + fft_size
    /\ \E i, j \in 1..fft_size : ctxB.fft_in[i] = 2 /\ ctxB.fft_in[j] = 0

\* a step of the audio thread: main()'s own variables stay as they are
CallbackStep == UNCHANGED <<measure_started, pc, save_i, file, progress>>

\* C14: a callback that begins, after the start signal, with no bin selected
\* or with a full capture buffer, and whose input leaves the silence run
\* counter below silence_frames_needed, emits only zeros and leaves
\* current_bin, fft_in_fill and the oscillator phase as they were.
C14_SilentWhileWaiting ==
    [][(/\ CallbackStep
        /\ measure_started # 0
        /\ change_bin(ctx)
        /\ ctx'.silence_frames_count < Needed)
        => /\ AllZero(output')
           /\ tone_count' = 0
           /\ ctx'.current_bin = ctx.current_bin
           /\ ctx'.fft_in_fill = ctx.fft_in_fill
           /\ ctx'.oscillator_phase = ctx.oscillator_phase]_vars

\* after a callback that waited with the buffer of bin 1 full
C14_Witness ==
    /\ measure_started = 1
    /\ ctx.current_bin = 1
    /\ ctx.fft_in_fill = fft_size
    /\ ctx.silence_frames_count < Needed
    /\ did.measured
    /\ tone_count = 0
    /\ output # <<>> /\ AllZero(output)
    /\ ctx.oscillator_phase # 0

\* C15: the oscillator phase, as a numerator over fft_size, stays in
\* 0..fft_size-1, and after j tone samples since the latest change of
\* current_bin to k it is (j * k) mod fft_size, however the samples were
\* split into callbacks; in particular it restarts from 0 at the change.
C15_NormalizedPhase ==
    /\ ctx.oscillator_phase \in 0..(fft_size - 1)
    /\ ctx.oscillator_phase =
          IF ctx.current_bin = NoBin THEN 0
          ELSE (osc_samples * ctx.current_bin) % fft_size

\* bin 2 fully captured after an odd number of tone samples (five or more)
C15_Witness ==
    /\ ctx.current_bin = 2
    /\ ctx.fft_in_fill = fft_size
    /\ osc_samples = 1
    /\ ctx.oscillator_phase = 2

\* C16: every write of the response table made by a callback has its index
\* in 0..fft_size/2 and every write of the capture buffer has its index in
\* 0..fft_size-1, also in the callbacks around the change of current_bin to
\* fft_nbins.
C16_WritesInRange ==
    /\ did.measured => did.slot \in 0..(fft_size \div 2)
    /\ did.stored > 0 => /\ did.first >= 0
                         /\ did.first + did.stored - 1 <= fft_size - 1

\* after the callback that wrote the last slot and moved current_bin to
\* fft_nbins
C16_Witness ==
    /\ did.measured
    /\ did.slot = fft_nbins - 1
    /\ ctx.current_bin = fft_nbins
    /\ measure_finished = 0

\* C17: the number main() prints on its progress line while measure_finished
\* is still 0, current_bin + 1, lies in 1..fft_nbins.  (Fails: between the
\* callback that moves current_bin to fft_nbins and the next one, which
\* stores measure_finished, main() prints fft_nbins + 1.)
C17_ProgressInRange == progress # 0 => progress \in 1..fft_nbins
====
